---- MODULE Spec2Model ----
(***************************************************************************)
(* The LAVA dispatcher-master (lava_scheduler_app/management/commands/     *)
(* dispatcher-master.py): the main loop of Command.handle, the control     *)
(* socket handler Command.controler_socket, the registry of slave          *)
(* dispatchers and the periodic database sweep (process_jobs,              *)
(* handle_canceling).                                                      *)
(*                                                                         *)
(* A message is the multipart frame list of the ROUTER socket: msg[1] is   *)
(* the hostname (msg[0] in the source), msg[2] the action, msg[3..] the    *)
(* extra frames.  Time is time.time(); it only moves while the loop waits  *)
(* in poller.poll.                                                         *)
(***************************************************************************)
EXTENDS Integers, Sequences, FiniteSets, TLC

\* ---------------------------------------------------------------- constants
PROTOCOL_VERSION == 1
FD_TIMEOUT == 60
TIMEOUT == 10
DB_LIMIT == 10
DISPATCHER_TIMEOUT == 3 * 10

\* ------------------------------------------------------------------- bounds
\* time.time() when the process starts; how many poll timeouts are observed
\* with the one-job store, and how many with the larger stores
StartTime == 100
MaxTicks == 4
ShortTicks == 2
LogTicks == 8

\* ------------------------------------------------------------ value domains
Workers == {"w1", "w2"}
None == "None"
NoMsg == <<>>

SUBMITTED == "SUBMITTED"
RUNNING == "RUNNING"
COMPLETE == "COMPLETE"
INCOMPLETE == "INCOMPLETE"
CANCELED == "CANCELED"
CANCELING == "CANCELING"
Terminal == {COMPLETE, INCOMPLETE, CANCELED}

\* Devices and the worker_host the admin gave each of them; d3 has none.
DeviceWorker == ("d1" :> "w1") @@ ("d2" :> "w2") @@ ("d3" :> None)

\* One row of the TestJob table, as far as this command reads it.
Row(pipeline, multinode, dyn, dev, lw, parent, prio) ==
    [is_pipeline |-> pipeline, is_multinode |-> multinode, dynamic_connection |-> dyn,
     requested_device |-> dev, lookup_worker |-> lw, get_parent_job |-> parent,
     health_check |-> FALSE, priority |-> prio, submit_time |-> 0,
     target_group |-> IF multinode THEN "g" ELSE None]

\* The stores the model starts from: one single node job; a pipeline job and
\* a job that is no pipeline job on the same worker; a multinode group of two
\* jobs with devices and a dynamic connection; a job whose device has no
\* worker_host and a dynamic connection without worker.
OneJobStore ==
    (1 :> Row(TRUE, FALSE, FALSE, "d1", None, None, 50))
SingleStore ==
    (1 :> Row(TRUE, FALSE, FALSE, "d1", None, None, 50)) @@
    (2 :> Row(FALSE, FALSE, FALSE, "d1", None, None, 100))
MultinodeStore ==
    (1 :> Row(TRUE, TRUE, FALSE, "d1", None, None, 50)) @@
    (2 :> Row(TRUE, TRUE, FALSE, "d2", None, None, 50)) @@
    (3 :> Row(TRUE, TRUE, TRUE, None, "w1", 1, 50))
BrokenStore ==
    (1 :> Row(TRUE, FALSE, FALSE, "d3", None, None, 50)) @@
    (2 :> Row(TRUE, TRUE, TRUE, None, None, None, 50))
Stores == {OneJobStore, SingleStore, MultinodeStore, BrokenStore}

\* int(): the texts it accepts and their values; anything else is a ValueError
IntOf == ("0" :> 0) @@ ("1" :> 1) @@ ("2" :> 2) @@ ("99" :> 99)
IsInt(s) == s \in DOMAIN IntOf

\* The frames the slaves may send after their hostname.
HelloFrames ==
    {<<a>> : a \in {"HELLO", "HELLO_RETRY"}} \cup
    {<<a, v>> : a \in {"HELLO", "HELLO_RETRY"}, v \in {"1", "2", "x"}}
EndFrames ==
    {<<"END", i, c, "error", "lzma">> : i \in {"1", "2", "99"}, c \in {"0", "1"}} \cup
    {<<"END", "x", "0", "error", "lzma">>, <<"END", "1", "x", "error", "lzma">>,
     <<"END", "1", "0">>}
StartOkFrames ==
    {<<"START_OK", i>> : i \in {"1", "2", "99", "x"}} \cup {<<"START_OK">>}
Frames == HelloFrames \cup EndFrames \cup StartOkFrames \cup {<<"PING">>, <<"BOGUS">>}
Msgs == {<<h>> \o f : h \in Workers, f \in Frames}

Signals == {"SIGHUP", "SIGINT", "SIGTERM", "SIGQUIT"}

\* ---------------------------------------------------------------- variables
VARIABLES
    pc,              \* where Command.handle is in its loop
    now,             \* time.time()
    horizon,         \* the time up to which the run is observed
    msg,             \* the frame list controler_socket received in this iteration
    ret,             \* how controler_socket ended in this iteration
    sent,            \* controler.send_multipart calls, in order, of the part of the
                     \* iteration that ran last: controler_socket, then the sweep
    txn,             \* the transaction.atomic() block of controler_socket
    overdue,         \* dispatchers online and timed out when poll returned
    dispatchers,     \* self.dispatchers
    testjobs,        \* the TestJob table
    last_db_access,  \* last_db_access of Command.handle
    started,         \* per job: "never" a START sent, a START "pending" (no
                     \* START_OK or END received since), or "answered"
    run_threads,     \* self.run_threads
    controler,       \* self.controler: "open" or "closed"
    pull_socket,     \* self.pull_socket: "open" or "closed"
    log_thread,      \* logging_thread: "running", "terminated" (left its loop),
                     \* or "dead" (ended by an exception)
    log_jobs,        \* the dict "jobs" local to logging_socket
    self_jobs,       \* self.jobs of Command
    self_current_level, \* the attribute current_level of Command
    log_msg,         \* the frame logging_socket received last
    log_ret,         \* what became of it: "dropped", "written", "raised" (by the
                     \* store), "extractor_raised" or "type_error"
    sub_written,     \* records appended to the files {level}-{name}.yaml
    output_written   \* records appended to the files output.yaml

logvars == <<run_threads, controler, pull_socket, log_thread, log_jobs, self_jobs,
             self_current_level, log_msg, log_ret, sub_written, output_written>>

vars == <<pc, now, horizon, msg, ret, sent, txn, overdue, dispatchers, testjobs,
          last_db_access, started, run_threads, controler, pull_socket, log_thread,
          log_jobs, self_jobs, self_current_level, log_msg, log_ret, sub_written,
          output_written>>

JobIds == DOMAIN testjobs

\* ------------------------------------------------------------------ helpers
RECURSIVE SortedIds(_)
SortedIds(S) ==
    IF S = {} THEN <<>>
    ELSE LET m == CHOOSE x \in S : \A y \in S : x <= y
         IN <<m>> \o SortedIds(S \ {m})

Out(to, verb, id) == [to |-> to, verb |-> verb, job_id |-> id]
NoId == 0

\* job.actual_device.worker_host (None when either link is missing)
ActualWorker(jobs, j) ==
    IF jobs[j].actual_device = None THEN None
    ELSE DeviceWorker[jobs[j].actual_device]

\* mutant of SlaveDispatcher: last_msg starts at 0 whatever online is
SlaveDispatcher_NoTime(hostname, online, t) == [online |-> online, last_msg |-> 0]

\* class SlaveDispatcher
SlaveDispatcher(hostname, online, t) ==
    [online |-> online, last_msg |-> IF online THEN t ELSE 0]

alive(d, t) == [d EXCEPT !.last_msg = t]

\* --------------------------------------------------- store (dbutils) model
\* start_job, cancel_job, fail_job, create_job and select_device live in
\* lava_scheduler_app/dbutils.py; they are modelled from the specification.
start_job(row) == [row EXCEPT !.status = RUNNING]

CancelJobResults == {CANCELING, CANCELED, INCOMPLETE}
cancel_job(row, result) == [row EXCEPT !.status = result]

FailJobResults(row, job_status) ==
    IF row.status \in Terminal THEN {row.status, job_status} ELSE {job_status}
fail_job(row, result) == [row EXCEPT !.status = result]

create_job(row, device) == [row EXCEPT !.actual_device = device]

\* ----------------------------------------------------------------- Init
\* The registry is empty and nothing was sent.  The store holds jobs that are
\* submitted (and reserved a device), running or canceling; a dynamic
\* connection is submitted or canceling.
InitialStatus(row) ==
    IF row.dynamic_connection THEN {SUBMITTED, CANCELING}
    ELSE {SUBMITTED, RUNNING, CANCELING}

InitialJobs(store) ==
    {[j \in DOMAIN store |->
         [status |-> st[j], actual_device |-> store[j].requested_device] @@ store[j]] :
     st \in {f \in [DOMAIN store -> {SUBMITTED, RUNNING, CANCELING}] :
                \A j \in DOMAIN store : f[j] \in InitialStatus(store[j])}}

\* the state when the main loop is entered, for a store and a time to observe
InitState(store, ticks) ==
    /\ run_threads = TRUE
    /\ controler = "open"
    /\ pull_socket = "open"
    /\ log_thread = "running"
    /\ log_jobs = [j \in {} |-> {}]
    /\ self_jobs = [j \in {} |-> {}]
    /\ self_current_level = None
    /\ log_msg = NoMsg
    /\ log_ret = "none"
    /\ sub_written = {}
    /\ output_written = {}
    /\ pc = "poll"
    /\ now = StartTime
    /\ msg = NoMsg
    /\ ret = "none"
    /\ sent = <<>>
    /\ txn = "none"
    /\ overdue = {}
    /\ dispatchers = [w \in {} |-> SlaveDispatcher(w, FALSE, 0)]
    /\ testjobs \in InitialJobs(store)
    /\ horizon = StartTime + TIMEOUT * ticks
    /\ last_db_access = 0
    /\ started = [j \in JobIds |-> "never"]

Init ==
    \E store \in Stores :
        InitState(store, IF store = OneJobStore THEN MaxTicks ELSE ShortTicks)

\* ------------------------------------------------- garbage collection
\* "for job_id in self.jobs.keys(): if now - self.jobs[job_id].last_usage >
\* FD_TIMEOUT: self.jobs[job_id].close(); del self.jobs[job_id]"
GarbageCollect(handlers, t) ==
    [j \in {k \in DOMAIN handlers : ~(t - handlers[k].last_usage > FD_TIMEOUT)}
        |-> handlers[j]]

\* the garbage collection of one iteration of the main loop; it works on
\* self.jobs and on nothing else
CollectHandlers ==
    /\ self_jobs' = GarbageCollect(self_jobs, now')
    /\ UNCHANGED <<run_threads, controler, pull_socket, log_thread, log_jobs,
                   self_current_level, log_msg, log_ret, sub_written, output_written>>

\* ------------------------------------------------------------ poller.poll
TimeSteps == {0, TIMEOUT}
CanAdvance(dt) == now + dt <= horizon

Overdue(disp, t) ==
    {w \in DOMAIN disp : disp[w].online /\ t - disp[w].last_msg > DISPATCHER_TIMEOUT}

\* poll returned: dt seconds have passed
Woke(dt) ==
    /\ CanAdvance(dt)
    /\ now' = now + dt
    /\ overdue' = Overdue(dispatchers, now + dt)

\* nothing became readable within TIMEOUT seconds
PollTimeout ==
    /\ CollectHandlers
    /\ pc = "poll"
    /\ Woke(TIMEOUT)
    /\ pc' = "check"
    /\ UNCHANGED <<horizon, msg, ret, sent, txn, dispatchers, testjobs,
                   last_db_access, started>>

\* poller.poll raised zmq.error.ZMQError: continue
PollError ==
    /\ UNCHANGED logvars
    /\ pc = "poll"
    /\ \E dt \in TimeSteps : CanAdvance(dt) /\ now' = now + dt
    /\ UNCHANGED <<pc, horizon, msg, ret, sent, txn, overdue, dispatchers, testjobs,
                   last_db_access, started>>

\* the signal pipe is readable and the control socket is not: SIGHUP restarts
\* the loggers and the iteration goes on, any other signal breaks out of the loop
PollSignal ==
    /\ pc = "poll"
    /\ \E dt \in TimeSteps : Woke(dt)
    /\ \E signum \in Signals :
          IF signum = "SIGHUP"
          THEN pc' = "check" /\ CollectHandlers
          ELSE pc' = "closed" /\ UNCHANGED logvars
    /\ UNCHANGED <<horizon, msg, ret, sent, txn, dispatchers, testjobs,
                   last_db_access, started>>

\* the control socket is readable (and no signal, or SIGHUP, on the pipe):
\* controler_socket() receives a message with one of these actions
Receives(actions) ==
    /\ pc = "poll"
    /\ \E dt \in TimeSteps : Woke(dt)
    /\ \E m \in Msgs : m[2] \in actions /\ msg' = m
    /\ CollectHandlers
    /\ UNCHANGED <<horizon, last_db_access>>

\* --------------------------------------------------------- send_status etc.
\* TestJob.objects.filter(actual_device__worker_host__hostname=hostname,
\*                        is_pipeline=True, status=TestJob.RUNNING)
RunningOn(jobs, hostname) ==
    {j \in DOMAIN jobs : /\ ActualWorker(jobs, j) = hostname
                         /\ jobs[j].is_pipeline
                         /\ jobs[j].status = RUNNING}

RECURSIVE StatusMsgs(_, _)
StatusMsgs(hostname, ids) ==
    IF ids = <<>> THEN <<>>
    ELSE <<Out(hostname, "STATUS", Head(ids))>> \o StatusMsgs(hostname, Tail(ids))

send_status(jobs, hostname) == StatusMsgs(hostname, SortedIds(RunningOn(jobs, hostname)))

\* dispatcher_alive(hostname) at time t; dberr: the query of send_status
\* raised; jobs is the TestJob table as the handler has left it
DispatcherAliveMayRaise(hostname) == hostname \notin DOMAIN dispatchers

dispatcher_alive_registry(hostname, t, dberr) ==
    LET known == IF hostname \notin DOMAIN dispatchers
                 THEN dispatchers @@ (hostname :> SlaveDispatcher(hostname, TRUE, t))
                 ELSE dispatchers
    IN IF dberr THEN known ELSE [known EXCEPT ![hostname] = alive(@, t)]

\* mutant of dispatcher_alive_sent: send_status whether or not hostname is known
dispatcher_alive_sent_Always(jobs, hostname, dberr) ==
    IF ~dberr THEN send_status(jobs, hostname) ELSE <<>>

dispatcher_alive_sent(jobs, hostname, dberr) ==
    IF hostname \notin DOMAIN dispatchers /\ ~dberr THEN send_status(jobs, hostname) ELSE <<>>

\* mutant of Returns: a store error is not caught and ends the main loop
Returns_Fatal(r) ==
    /\ ret' = r
    /\ pc' = IF r = "True" THEN "check" ELSE IF r = "raised" THEN "closed" ELSE "continue"

\* how a handler leaves controler_socket: return True, return False, or an
\* OperationalError / InterfaceError on its way to the loop's except clause
Returns(r) ==
    /\ ret' = r
    /\ pc' = IF r = "True" THEN "check" ELSE "continue"

\* return False before anything was done
Reject ==
    /\ Returns("False")
    /\ UNCHANGED <<sent, txn, dispatchers, testjobs, started>>

\* ---------------------------------------------------- HELLO / HELLO_RETRY
\* mutant of VersionAccepted: the version is parsed but not compared
VersionAccepted_AnyInt(m) == Len(m) >= 3 /\ IsInt(m[3])

\* int(msg[2]) succeeded and equals PROTOCOL_VERSION
VersionAccepted(m) == Len(m) >= 3 /\ IsInt(m[3]) /\ IntOf[m[3]] = PROTOCOL_VERSION

\* mutant of CancelsJobs: the jobs are cancelled whatever the verb
CancelsJobs_Always(action) == TRUE

\* "if action == 'HELLO': self._cancel_slave_dispatcher_jobs(hostname)"
CancelsJobs(action) == action = "HELLO"

\* _cancel_slave_dispatcher_jobs(hostname): cancel_job on every job of the filter
_cancel_slave_dispatcher_jobs(hostname, results) ==
    [j \in JobIds |-> IF j \in RunningOn(testjobs, hostname)
                      THEN cancel_job(testjobs[j], results[j])
                      ELSE testjobs[j]]

HelloRegistry(hostname, t) ==
    IF hostname \in DOMAIN dispatchers THEN dispatchers
    ELSE dispatchers @@ (hostname :> SlaveDispatcher(hostname, TRUE, t))

ControlHello ==
    /\ Receives({"HELLO", "HELLO_RETRY"})
    /\ IF ~VersionAccepted(msg') THEN Reject
       ELSE LET hostname == msg'[1]
                action == msg'[2]
            IN /\ sent' = Append(sent, Out(hostname, "HELLO_OK", NoId))
               /\ started' = started
               /\ IF CancelsJobs(action)
                  THEN \E dberr \in BOOLEAN,
                          results \in [RunningOn(testjobs, hostname) -> CancelJobResults] :
                          IF dberr
                          THEN /\ txn' = "rollback"
                               /\ dispatchers' = HelloRegistry(hostname, now')
                               /\ testjobs' = testjobs
                               /\ Returns("raised")
                          ELSE /\ txn' = "commit"
                               /\ testjobs' = _cancel_slave_dispatcher_jobs(hostname, results)
                               /\ dispatchers' = [HelloRegistry(hostname, now')
                                                     EXCEPT ![hostname] = alive(@, now')]
                               /\ Returns("True")
                  ELSE /\ txn' = txn
                       /\ testjobs' = testjobs
                       /\ dispatchers' = [HelloRegistry(hostname, now')
                                             EXCEPT ![hostname] = alive(@, now')]
                       /\ Returns("True")

\* ------------------------------------------------------------------- PING
ControlPing ==
    /\ Receives({"PING"})
    /\ UNCHANGED <<txn, testjobs, started>>
    /\ LET hostname == msg'[1]
       IN \E dberr \in {FALSE, DispatcherAliveMayRaise(hostname)} :
             /\ sent' = Append(sent, Out(hostname, "PONG", NoId))
                           \o dispatcher_alive_sent(testjobs, hostname, dberr)
             /\ dispatchers' = dispatcher_alive_registry(hostname, now', dberr)
             /\ Returns(IF dberr THEN "raised" ELSE "True")

\* -------------------------------------------------------------------- END
\* the try block: int(msg[2]), int(msg[3]), msg[4], msg[5]
EndWellFormed(m) == Len(m) >= 6 /\ IsInt(m[3]) /\ IsInt(m[4])

\* mutant of EndStatus: the two branches swapped
EndStatus_Swapped(job_status) == IF job_status # 0 THEN COMPLETE ELSE INCOMPLETE

\* "if job_status: status = TestJob.INCOMPLETE else: status = TestJob.COMPLETE"
EndStatus(job_status) == IF job_status # 0 THEN INCOMPLETE ELSE COMPLETE

\* "if job.status == TestJob.CANCELING: cancel_job(job)"
EndCancelsFirst(row) == row.status = CANCELING

\* the rows the transaction of END may leave for the job
EndFinalised(row, status) ==
    LET canceled == IF EndCancelsFirst(row)
                    THEN {cancel_job(row, c) : c \in CancelJobResults}
                    ELSE {row}
    IN UNION {{fail_job(r, f) : f \in FailJobResults(r, status)} : r \in canceled}

\* mutants of EndReply: the reply forgotten; the reply sent before the store is used
EndReply_Forgotten(hostname, job_id, raised) == <<>>
EndReply_First(hostname, job_id, raised) == <<Out(hostname, "END_OK", job_id)>>

\* controler.send_multipart([hostname, 'END_OK', str(job_id)]) is reached when
\* nothing raised before it
EndReply(hostname, job_id, raised) ==
    IF raised THEN <<>> ELSE <<Out(hostname, "END_OK", job_id)>>

\* a START_OK or an END for job_id was received
Answered(job_id) ==
    [j \in JobIds |-> IF j = job_id /\ started[j] = "pending" THEN "answered"
                      ELSE started[j]]

ControlEnd ==
    /\ Receives({"END"})
    /\ IF ~EndWellFormed(msg') THEN Reject
       ELSE LET hostname == msg'[1]
                job_id == IntOf[msg'[3]]
                status == EndStatus(IntOf[msg'[4]])
                known == job_id \in JobIds
            IN /\ started' = Answered(job_id)
               /\ \E dberr \in {"none", "get", "txn", "status"} :
                     \* "txn" needs the job, "status" an unknown dispatcher
                     /\ dberr = "txn" => known
                     /\ dberr = "status" => DispatcherAliveMayRaise(hostname)
                     /\ txn' = IF ~known \/ dberr = "get" THEN txn
                               ELSE IF dberr = "txn" THEN "rollback" ELSE "commit"
                     /\ IF known /\ dberr \in {"none", "status"}
                        THEN \E row \in EndFinalised(testjobs[job_id], status) :
                                testjobs' = [testjobs EXCEPT ![job_id] = row]
                        ELSE testjobs' = testjobs
                     /\ sent' = sent \o EndReply(hostname, job_id, dberr \in {"get", "txn"})
                                     \o IF dberr \in {"get", "txn"} THEN <<>>
                                        ELSE dispatcher_alive_sent(testjobs', hostname,
                                                                   dberr = "status")
                     /\ dispatchers' =
                           IF dberr \in {"get", "txn"} THEN dispatchers
                           ELSE dispatcher_alive_registry(hostname, now', dberr = "status")
                     /\ Returns(IF dberr = "none" THEN "True" ELSE "raised")

\* --------------------------------------------------------------- START_OK
StartOkWellFormed(m) == Len(m) >= 3 /\ IsInt(m[3])

\* the transaction of START_OK: start_job(job)
StartOkRow(row) == start_job(row)

ControlStartOk ==
    /\ Receives({"START_OK"})
    /\ IF ~StartOkWellFormed(msg') THEN Reject
       ELSE LET hostname == msg'[1]
                job_id == IntOf[msg'[3]]
                known == job_id \in JobIds
            IN /\ started' = Answered(job_id)
               /\ \E dberr \in {"none", "txn", "status"} :
                     /\ dberr = "status" => DispatcherAliveMayRaise(hostname)
                     /\ txn' = IF dberr = "txn" THEN "rollback"
                               ELSE IF known THEN "commit" ELSE txn
                     /\ testjobs' = IF known /\ dberr # "txn"
                                    THEN [testjobs EXCEPT ![job_id] = StartOkRow(@)]
                                    ELSE testjobs
                     /\ sent' = IF dberr = "txn" THEN sent
                                ELSE sent \o dispatcher_alive_sent(testjobs', hostname,
                                                                   dberr = "status")
                     /\ dispatchers' =
                           IF dberr = "txn" THEN dispatchers
                           ELSE dispatcher_alive_registry(hostname, now', dberr = "status")
                     /\ Returns(IF dberr = "none" THEN "True" ELSE "raised")

\* ------------------------------------------------------- any other action
KnownActions == {"HELLO", "HELLO_RETRY", "PING", "END", "START_OK"}

ControlUnknown ==
    /\ Receives({m[2] : m \in Msgs} \ KnownActions)
    /\ Returns("True")
    /\ UNCHANGED <<sent, txn, dispatchers, testjobs, started>>

\* ------------------------------------------------ check dispatchers status
\* mutant of GoesOffline: ">=" for ">"
GoesOffline_Early(d, t) == d.online /\ t - d.last_msg >= DISPATCHER_TIMEOUT

\* "if dispatcher.online and now - dispatcher.last_msg > DISPATCHER_TIMEOUT"
GoesOffline(d, t) == d.online /\ t - d.last_msg > DISPATCHER_TIMEOUT

\* controler_socket has returned True, or was not called
CheckDispatchers ==
    /\ UNCHANGED logvars
    /\ pc = "check"
    /\ dispatchers' = [w \in DOMAIN dispatchers |->
                          IF GoesOffline(dispatchers[w], now)
                          THEN [dispatchers[w] EXCEPT !.online = FALSE]
                          ELSE dispatchers[w]]
    /\ pc' = "db_limit"
    /\ msg' = NoMsg
    /\ ret' = "none"
    /\ txn' = "none"
    /\ sent' = <<>>
    /\ UNCHANGED <<now, horizon, overdue, testjobs, last_db_access, started>>

\* "if now - last_db_access > DB_LIMIT: last_db_access = now"
\* mutant of DbAccessDue: ">=" for ">"
DbAccessDue_Early(t, last) == t - last >= DB_LIMIT

DbAccessDue(t, last) == t - last > DB_LIMIT

DbLimit ==
    /\ UNCHANGED logvars
    /\ pc = "db_limit"
    /\ IF DbAccessDue(now, last_db_access)
       THEN /\ last_db_access' = now
            /\ pc' = "process_jobs"
       ELSE /\ last_db_access' = last_db_access
            /\ pc' = "continue"
    /\ UNCHANGED <<now, horizon, msg, ret, sent, txn, overdue, dispatchers, testjobs,
                   started>>

\* ------------------------------------------------------------ process_jobs
\* Q(status=SUBMITTED) & Q(is_pipeline=True) & ~Q(actual_device=None)
Candidates(jobs) ==
    {j \in DOMAIN jobs : /\ jobs[j].status = SUBMITTED
                         /\ jobs[j].is_pipeline
                         /\ jobs[j].actual_device # None}

\* order_by('-health_check', '-priority', 'submit_time', 'target_group', 'id');
\* the target groups of one store do not differ where the earlier keys tie
Before(jobs, a, b) ==
    LET ra == jobs[a]
        rb == jobs[b]
    IN IF ra.health_check # rb.health_check THEN ra.health_check
       ELSE IF ra.priority # rb.priority THEN ra.priority > rb.priority
       ELSE IF ra.submit_time # rb.submit_time THEN ra.submit_time < rb.submit_time
       ELSE a < b

RECURSIVE OrderBy(_, _)
OrderBy(jobs, S) ==
    IF S = {} THEN <<>>
    ELSE LET first == CHOOSE x \in S : \A y \in S \ {x} : Before(jobs, x, y)
         IN <<first>> \o OrderBy(jobs, S \ {first})

\* job.sub_jobs_list: the jobs of the target group, the job itself included
sub_jobs_list(jobs, j) ==
    SortedIds({k \in DOMAIN jobs : jobs[k].target_group = jobs[j].target_group})

\* mutant of DynamicConnections: "if group_job.dynamic_connection" left out
DynamicConnections_All(jobs, j) ==
    IF jobs[j].is_multinode THEN sub_jobs_list(jobs, j) ELSE <<>>

\* the group jobs the multinode branch sends a START for
DynamicConnections(jobs, j) ==
    IF jobs[j].is_multinode
    THEN SelectSeq(sub_jobs_list(jobs, j), LAMBDA k : jobs[k].dynamic_connection)
    ELSE <<>>

\* select_device(job, self.dispatchers) (dbutils, modelled from the
\* specification): no device, or the device of the job if its worker is alive
SelectDeviceFinds(jobs, disp, j) ==
    LET w == ActualWorker(jobs, j)
    IN w = None \/ (w \in DOMAIN disp /\ disp[w].online)

\* What may happen to one candidate of the sweep:
\*   "dberr"     the store raised OperationalError / InterfaceError
\*   "nodevice"  select_device returned no device
\*   "io"        load_optional_yaml_file raised IOError
\*   "sub"       yaml.load or load_device_configuration raised for the parent
\*               of the first dynamic connection
\*   "template"  yaml.load(job.definition) or device.load_device_configuration
\*               raised for the job itself
\*   "ok"        nothing raised
Outcomes(jobs, disp, j) ==
    {"dberr", "nodevice"} \cup
    (IF SelectDeviceFinds(jobs, disp, j) THEN {"io", "template", "ok"} ELSE {}) \cup
    (IF SelectDeviceFinds(jobs, disp, j) /\ DynamicConnections(jobs, j) # <<>>
     THEN {"sub"} ELSE {})

RECURSIVE StartMsgs(_, _)
StartMsgs(jobs, ids) ==
    IF ids = <<>> THEN <<>>
    ELSE <<Out(jobs[Head(ids)].lookup_worker, "START", Head(ids))>>
         \o StartMsgs(jobs, Tail(ids))

\* mutant of Starts: the START of the job is sent before anything is loaded
Starts_First(jobs, j, worker_host, outcome) ==
    <<Out(worker_host, "START", j)>>
    \o IF outcome \in {"io", "sub"} THEN <<>>
       ELSE StartMsgs(jobs, DynamicConnections(jobs, j))

\* the START messages of one candidate whose device has a worker
Starts(jobs, j, worker_host, outcome) ==
    IF outcome \in {"io", "sub"} THEN <<>>
    ELSE StartMsgs(jobs, DynamicConnections(jobs, j))
         \o IF outcome = "ok" THEN <<Out(worker_host, "START", j)>> ELSE <<>>

\* mutant of Dispatched: the job is started as soon as its START is sent
Dispatched_Running(row, outcome) ==
    LET device == IF row.actual_device = None THEN row.requested_device
                  ELSE row.actual_device
    IN IF DeviceWorker[device] = None THEN fail_job(row, INCOMPLETE)
       ELSE LET created == IF row.actual_device = None THEN create_job(row, device)
                           ELSE row
            IN IF outcome = "ok" THEN start_job(created) ELSE fail_job(created, INCOMPLETE)

\* the row of one candidate after its turn
Dispatched(row, outcome) ==
    LET device == IF row.actual_device = None THEN row.requested_device
                  ELSE row.actual_device
    IN IF DeviceWorker[device] = None THEN fail_job(row, INCOMPLETE)
       ELSE LET created == IF row.actual_device = None THEN create_job(row, device)
                           ELSE row
            IN IF outcome = "ok" THEN created ELSE fail_job(created, INCOMPLETE)

\* one turn of the for loop of process_jobs; acc is what the loop did so far
ProcessJob(acc, j, outcome) ==
    IF acc.raised \/ outcome = "nodevice" THEN acc
    ELSE IF outcome = "dberr" THEN [acc EXCEPT !.raised = TRUE]
    ELSE LET row == acc.jobs[j]
             device == IF row.actual_device = None THEN row.requested_device
                       ELSE row.actual_device
             worker_host == DeviceWorker[device]
         IN [jobs |-> [acc.jobs EXCEPT ![j] = Dispatched(row, outcome)],
             out |-> IF worker_host = None THEN acc.out
                     ELSE acc.out \o Starts(acc.jobs, j, worker_host, outcome),
             raised |-> FALSE]

RECURSIVE process_jobs(_, _, _)
process_jobs(acc, ids, outcome) ==
    IF ids = <<>> THEN acc
    ELSE process_jobs(ProcessJob(acc, Head(ids), outcome[Head(ids)]), Tail(ids), outcome)

\* the job ids of the START messages in out
StartIds(out) == {out[i].job_id : i \in {k \in 1..Len(out) : out[k].verb = "START"}}

ProcessJobs ==
    /\ UNCHANGED logvars
    /\ pc = "process_jobs"
    /\ LET ids == OrderBy(testjobs, Candidates(testjobs))
       IN \E outcome \in [Candidates(testjobs) -> {"dberr", "nodevice", "io", "sub",
                                                    "template", "ok"}] :
             /\ \A j \in Candidates(testjobs) :
                   outcome[j] \in Outcomes(testjobs, dispatchers, j)
             /\ LET done == process_jobs([jobs |-> testjobs, out |-> <<>>, raised |-> FALSE],
                                         ids, outcome)
                IN /\ testjobs' = done.jobs
                   /\ sent' = sent \o done.out
                   /\ started' = [j \in JobIds |-> IF j \in StartIds(done.out)
                                                   THEN "pending" ELSE started[j]]
                   /\ pc' = IF done.raised THEN "continue" ELSE "handle_canceling"
    /\ UNCHANGED <<now, horizon, msg, ret, txn, overdue, dispatchers, last_db_access>>

\* -------------------------------------------------------- handle_canceling
\* TestJob.objects.filter(status=TestJob.CANCELING, is_pipeline=True)
Canceling(jobs) ==
    {j \in DOMAIN jobs : jobs[j].status = CANCELING /\ jobs[j].is_pipeline}

\* mutant of CancelWorker: the device's worker for every job
CancelWorker_Device(jobs, j) == ActualWorker(jobs, j)

\* "job.lookup_worker if job.dynamic_connection else job.actual_device.worker_host"
CancelWorker(jobs, j) ==
    IF jobs[j].dynamic_connection THEN jobs[j].lookup_worker ELSE ActualWorker(jobs, j)

RECURSIVE handle_canceling(_, _)
handle_canceling(acc, ids) ==
    IF ids = <<>> THEN acc
    ELSE LET j == Head(ids)
             worker_host == CancelWorker(acc.jobs, j)
         IN handle_canceling(
                IF worker_host = None
                THEN [acc EXCEPT !.jobs[j] = fail_job(@, CANCELED)]
                ELSE [acc EXCEPT !.out = Append(@, Out(worker_host, "CANCEL", j))],
                Tail(ids))

HandleCanceling ==
    /\ UNCHANGED logvars
    /\ pc = "handle_canceling"
    \* a store error (caught at the bottom of the loop) ends the phase after
    \* the first n jobs; what was saved and sent for them stays
    /\ \E n \in 0..Cardinality(Canceling(testjobs)) :
          LET ids == SortedIds(Canceling(testjobs))
              done == handle_canceling([jobs |-> testjobs, out |-> <<>>],
                                       SubSeq(ids, 1, n))
          IN /\ testjobs' = done.jobs
             /\ sent' = sent \o done.out
    /\ pc' = "continue"
    /\ UNCHANGED <<now, horizon, msg, ret, txn, overdue, dispatchers, last_db_access,
                   started>>

\* ------------------------------------------------- back to the top of loop
Continue ==
    /\ UNCHANGED logvars
    /\ pc = "continue"
    /\ pc' = "poll"
    /\ msg' = NoMsg
    /\ ret' = "none"
    /\ sent' = <<>>
    /\ txn' = "none"
    /\ overdue' = {}
    /\ UNCHANGED <<now, horizon, dispatchers, testjobs, last_db_access, started>>

\* ------------------------------------------------------- logging_socket
\* the frames of the log socket: (job_id, level, name, message), and one
\* frame with a part missing
LogFrames ==
    {<<"1", l, "n", "debug">> : l \in {"1.1", "2.1"}}
    \cup {<<"99", "1.1", "n", "debug">>, <<"1", "1.1", "n", "results">>}
    \cup {<<"1", "1/1", "n", "debug">>, <<"1", "1.1", "../n", "debug">>,
          <<"1", "1.1", "n", "notyaml">>, <<"1", "1.1", "n", "nokeys">>,
          <<"1", "1.1", "n", "scalar">>, <<"1", "1.1", "n">>}

\* yaml.load(message, Loader=yaml.CLoader) raises yaml.YAMLError
YamlError(message) == message = "notyaml"
\* scanned["lvl"] and scanned["msg"] exist
HasKeys(message) == message \in {"debug", "results"}
\* scanned is no mapping (a YAML scalar or list): scanned["lvl"] raises
\* TypeError, which "except KeyError" does not catch
KeysTypeError(message) == message = "scalar"
\* scanned["lvl"]
MessageLvl(message) == message
\* '/' in s
HasSlash(s) == s \in {"1/1", "../n"}
\* level.split('.')[0]
Major == ("1.1" :> "1") @@ ("2.1" :> "2") @@ ("1/1" :> "1/1")

\* os.path.join(output_dir, "pipeline", level.split('.')[0], "%s-%s.yaml" % (level, name))
ShardPath(job_id, level, name) ==
    [output_dir |-> job_id, major |-> Major[level], level |-> level, name |-> name]

\* JobHandler(job, level, filename); output.yaml is opened with it
JobHandler(job_id, level, name, t) ==
    [current_level |-> level, sub_log |-> ShardPath(job_id, level, name), last_usage |-> t]

\* the block under "if level != jobs[job_id].current_level": the sub log is
\* replaced and the level is stored in self.current_level, the attribute of
\* Command, not in the handler
Rotated(handler, job_id, level, name) ==
    [handler EXCEPT !.sub_log = ShardPath(job_id, level, name)]

\* mutant of LogRejected: only the level is searched for '/'
LogRejected_LevelOnly(f) ==
    \/ Len(f) # 4
    \/ YamlError(f[4])
    \/ ~HasKeys(f[4])
    \/ HasSlash(f[2])

\* the frame is dropped by one of the "continue" before the handler lookup
LogRejected(f) ==
    \/ Len(f) # 4
    \/ YamlError(f[4])
    \/ ~HasKeys(f[4])
    \/ HasSlash(f[2]) \/ HasSlash(f[3])

\* What may go wrong while one frame is handled:
\*   "get"              TestJob.objects.get(id=job_id) raised a store error
\*   "results_get"      TestJob.objects.get(pk=job_id) raised a store error
\*   "extractor_false"  map_scanned_results returned a false value
\*   "extractor_raised" create_metadata_store or map_scanned_results raised
LogEvents == {"none", "get", "results_get", "extractor_false", "extractor_raised"}

\* the events that can happen to frame f
LogEventsOf(f) ==
    {"none"}
    \cup (IF Len(f) = 4 /\ f[1] \notin DOMAIN log_jobs THEN {"get"} ELSE {})
    \cup (IF Len(f) = 4 /\ MessageLvl(f[4]) = "results"
          THEN {"results_get", "extractor_false", "extractor_raised"} ELSE {})

LogOutcome(handlers, level, r) == [jobs |-> handlers, current_level |-> level, ret |-> r]

\* one turn of the loop of logging_socket for frame f
LogResult(f, e) ==
    IF Len(f) = 4 /\ ~YamlError(f[4]) /\ KeysTypeError(f[4])
    THEN LogOutcome(log_jobs, self_current_level, "type_error")
    ELSE IF LogRejected(f) THEN LogOutcome(log_jobs, self_current_level, "dropped")
    ELSE LET job_id == f[1]
             level == f[2]
             name == f[3]
             known == job_id \in DOMAIN log_jobs
             rotates == known /\ level # log_jobs[job_id].current_level
         IN IF ~known /\ e = "get"
            THEN LogOutcome(log_jobs, self_current_level, "raised")
            ELSE IF ~known /\ IntOf[job_id] \notin JobIds
            THEN LogOutcome(log_jobs, self_current_level, "dropped")
            ELSE LET handlers ==
                         IF rotates
                         THEN [log_jobs EXCEPT ![job_id] = Rotated(@, job_id, level, name)]
                         ELSE IF known THEN log_jobs
                         ELSE log_jobs @@ (job_id :> JobHandler(job_id, level, name, now))
                     current == IF rotates THEN level ELSE self_current_level
                     results == MessageLvl(f[4]) = "results"
                 IN IF results /\ e = "results_get"
                    THEN LogOutcome(handlers, current, "raised")
                    ELSE IF results /\ IntOf[job_id] \in JobIds /\ e = "extractor_raised"
                    THEN LogOutcome(handlers, current, "extractor_raised")
                    ELSE IF results /\ IntOf[job_id] \notin JobIds
                    THEN LogOutcome(handlers, current, "dropped")
                    ELSE LogOutcome([handlers EXCEPT ![job_id].last_usage = now],
                                    current, "written")

\* jobs[job_id].write(message): the record goes to output.yaml and to the sub log
LogRecord(f) == [level |-> f[2], name |-> f[3]]

\* recv_multipart(zmq.NOBLOCK) returned a frame
LogFrame ==
    /\ log_thread = "running"
    /\ run_threads
    /\ \E f \in LogFrames, e \in LogEvents :
          LET r == LogResult(f, e)
          IN /\ e \in LogEventsOf(f)
             /\ log_msg' = f
             /\ log_ret' = r.ret
             /\ log_jobs' = r.jobs
             /\ self_current_level' = r.current_level
             /\ log_thread' = IF r.ret \in {"raised", "extractor_raised", "type_error"}
                              THEN "dead" ELSE "running"
             /\ sub_written' =
                   IF r.ret = "written"
                   THEN sub_written \cup {[file |-> r.jobs[f[1]].sub_log, record |-> LogRecord(f)]}
                   ELSE sub_written
             /\ output_written' =
                   IF r.ret = "written"
                   THEN output_written \cup {[output_dir |-> f[1], record |-> LogRecord(f)]}
                   ELSE output_written
    /\ UNCHANGED <<pc, now, horizon, msg, ret, sent, txn, overdue, dispatchers, testjobs,
                   last_db_access, started, run_threads, controler, pull_socket, self_jobs>>

\* recv_multipart raised zmq.error.Again: msg = None, sleep, continue
LogIdle ==
    /\ log_thread = "running"
    /\ run_threads
    /\ log_msg' = NoMsg
    /\ log_ret' = "none"
    /\ UNCHANGED <<pc, now, horizon, msg, ret, sent, txn, overdue, dispatchers, testjobs,
                   last_db_access, started, run_threads, controler, pull_socket, log_thread,
                   log_jobs, self_jobs, self_current_level, sub_written, output_written>>

\* "while self.run_threads" is false: the thread closes its socket and ends.
\* JobHandler.close() is called for no handle of the local table; the table
\* goes out of scope, and whether the files of its handles are closed then
\* is left to the interpreter's finalisation
LogExit ==
    /\ log_thread = "running"
    /\ ~run_threads
    /\ pull_socket' = "closed"
    /\ log_thread' = "terminated"
    /\ log_jobs' \in {log_jobs, << >>}
    /\ UNCHANGED <<pc, now, horizon, msg, ret, sent, txn, overdue, dispatchers, testjobs,
                   last_db_access, started, run_threads, controler, self_jobs,
                   self_current_level, log_msg, log_ret, sub_written, output_written>>

\* ---------------------------------------------------------------- shutdown
\* after the loop: self.controler.close(linger=0); self.run_threads = False
Shutdown ==
    /\ pc = "closed"
    /\ controler' = "closed"
    /\ run_threads' = FALSE
    /\ pc' = "join"
    /\ UNCHANGED <<now, horizon, msg, ret, sent, txn, overdue, dispatchers, testjobs,
                   last_db_access, started, pull_socket, log_thread, log_jobs, self_jobs,
                   self_current_level, log_msg, log_ret, sub_written, output_written>>

\* logging_thread.join() returns once the thread has ended
Join ==
    /\ pc = "join"
    /\ log_thread # "running"
    /\ pc' = "done"
    /\ UNCHANGED <<now, horizon, msg, ret, sent, txn, overdue, dispatchers, testjobs,
                   last_db_access, started>>
    /\ UNCHANGED logvars

Next ==
    \/ PollTimeout
    \/ PollError
    \/ PollSignal
    \/ ControlHello
    \/ ControlPing
    \/ ControlEnd
    \/ ControlStartOk
    \/ ControlUnknown
    \/ CheckDispatchers
    \/ DbLimit
    \/ ProcessJobs
    \/ HandleCanceling
    \/ Continue
    \/ Shutdown
    \/ LogExit
    \/ Join

Spec == Init /\ [][Next]_vars

\* The master with one RUNNING pipeline job and log traffic instead of control
\* traffic: the main loop polls, collects, checks and sweeps while
\* logging_socket consumes frames.
LogInit ==
    /\ InitState(OneJobStore, LogTicks)
    /\ testjobs[1].status = RUNNING

LogNext ==
    \/ PollTimeout
    \/ PollSignal
    \/ CheckDispatchers
    \/ DbLimit
    \/ ProcessJobs
    \/ HandleCanceling
    \/ Continue
    \/ LogFrame
    \/ LogIdle
    \/ Shutdown
    \/ LogExit
    \/ Join

LogSpec == LogInit /\ [][LogNext]_vars


\* ==================================================================== claims
\* The words of the claims, stated on the frames themselves.
IsHello(m) == m # NoMsg /\ m[2] \in {"HELLO", "HELLO_RETRY"}
MatchingVersion(m) ==
    IsHello(m) /\ Len(m) >= 3 /\ m[3] \in DOMAIN IntOf /\ IntOf[m[3]] = PROTOCOL_VERSION
IsPing(m) == m # NoMsg /\ m[2] = "PING"
WellFormedEnd(m) ==
    m # NoMsg /\ m[2] = "END" /\ Len(m) >= 6 /\ m[3] \in DOMAIN IntOf /\ m[4] \in DOMAIN IntOf
WellFormedStartOk(m) ==
    m # NoMsg /\ m[2] = "START_OK" /\ Len(m) >= 3 /\ m[3] \in DOMAIN IntOf
AcceptedMsg(m) ==
    MatchingVersion(m) \/ IsPing(m) \/ WellFormedEnd(m) \/ WellFormedStartOk(m)
RejectedMsg(m) == m # NoMsg /\ ~AcceptedMsg(m)

\* controler_socket has run in this iteration and the loop has not gone on yet
Handled == msg # NoMsg /\ pc \in {"check", "continue"}
\* this step is controler_socket receiving and handling a message
Handles == pc = "poll" /\ msg' # NoMsg

Count(out, m) == Cardinality({i \in 1..Len(out) : out[i] = m})
StartCount(out, j) ==
    Cardinality({i \in 1..Len(out) : out[i].verb = "START" /\ out[i].job_id = j})
SameStatus(a, b) == \A j \in DOMAIN a : a[j].status = b[j].status

\* ------------------------------------------------------------------------ C1
\* C1 as claimed: every well-formed END is answered by exactly one
\* END_OK(job_id) to its sender, whether or not the job exists.
C1_EveryEndAnswered ==
    (Handled /\ WellFormedEnd(msg))
        => Count(sent, Out(msg[1], "END_OK", IntOf[msg[3]])) = 1

\* C1 as amended: a well-formed END that controler_socket handles without a
\* store error is answered by exactly one END_OK(job_id) to its sender, whether
\* or not the job exists; an END whose handling raises a store error is
\* answered at most once; no END is answered with another job id or to another
\* worker; and an END for an unknown job changes no job.
C1_EndAnsweredUnlessStoreError ==
    [][(Handles /\ WellFormedEnd(msg'))
          => LET reply == Out(msg'[1], "END_OK", IntOf[msg'[3]])
             IN /\ ret' = "True" => Count(sent', reply) = 1
                /\ Count(sent', reply) <= 1
                /\ \A i \in 1..Len(sent') : sent'[i].verb = "END_OK" => sent'[i] = reply
                /\ IntOf[msg'[3]] \notin JobIds => testjobs' = testjobs]_vars

C1_Witness ==
    /\ Handled /\ WellFormedEnd(msg)
    /\ IntOf[msg[3]] = 99
    /\ ret = "True"
    /\ sent = <<Out(msg[1], "END_OK", 99)>>

\* ------------------------------------------------------------------------ C2
\* C2: when END_OK(job_id) has been sent in reply to the END of a known job,
\* the transaction that finalises the job has committed (a transaction that
\* failed with a store error leaves no END_OK).
C2_EndOkAfterCommit ==
    (Handled /\ WellFormedEnd(msg) /\ IntOf[msg[3]] \in JobIds
        /\ Count(sent, Out(msg[1], "END_OK", IntOf[msg[3]])) > 0)
        => txn = "commit"

C2_Witness ==
    /\ Handled /\ WellFormedEnd(msg)
    /\ IntOf[msg[3]] \in JobIds
    /\ txn = "commit"
    /\ Count(sent, Out(msg[1], "END_OK", IntOf[msg[3]])) = 1

\* ------------------------------------------------------------------------ C3
\* the jobs of the group of j that hold a device (j itself when it is one);
\* a job outside any group is its own group
Primaries(j) ==
    {k \in JobIds : /\ ~testjobs[k].dynamic_connection
                    /\ \/ k = j
                       \/ /\ testjobs[j].is_multinode
                          /\ testjobs[k].target_group = testjobs[j].target_group}

\* C3 as claimed: a sweep sends no START for a job whose previous START has
\* been answered by neither START_OK nor END, and sends no START twice, the
\* STARTs of dynamic-connection sub-jobs included.
C3_OneStartUntilAnswered ==
    [][pc = "process_jobs"
          => \A j \in JobIds :
                StartCount(sent', j) + (IF started[j] = "pending" THEN 1 ELSE 0) <= 1]_vars

\* C3 as amended: one dispatch sweep sends at most one START for a job that
\* holds a device, and at most one START per device-holding job of its group
\* for a dynamic-connection sub-job.  (A job still SUBMITTED at the next sweep
\* is sent START again.)
C3_OneStartPerSweep ==
    \A j \in JobIds :
        StartCount(sent, j) <= IF testjobs[j].dynamic_connection
                               THEN Cardinality(Primaries(j)) ELSE 1

C3_Witness ==
    /\ pc = "handle_canceling"
    /\ \E j \in JobIds : testjobs[j].dynamic_connection /\ StartCount(sent, j) = 2
    /\ \E j \in JobIds : ~testjobs[j].dynamic_connection /\ StartCount(sent, j) = 1

\* ------------------------------------------------------------------------ C4
\* C4 as claimed: a job becomes RUNNING only while a START_OK for it is
\* handled, and only if a START for it was sent before.
C4_RunningOnlyAfterStart ==
    [][\A j \in JobIds :
          (testjobs'[j].status = RUNNING /\ testjobs[j].status # RUNNING)
              => /\ Handles /\ WellFormedStartOk(msg') /\ IntOf[msg'[3]] = j
                 /\ started[j] # "never"]_vars

\* C4 as amended: a job becomes RUNNING only while a START_OK for it is
\* handled, whether or not a START for it was ever sent; sending START changes
\* no job to RUNNING.
C4_RunningOnlyByStartOk ==
    [][\A j \in JobIds :
          (testjobs'[j].status = RUNNING /\ testjobs[j].status # RUNNING)
              => (Handles /\ WellFormedStartOk(msg') /\ IntOf[msg'[3]] = j)]_vars

C4_Witness ==
    /\ Handled /\ WellFormedStartOk(msg)
    /\ IntOf[msg[3]] \in JobIds
    /\ txn = "commit"
    /\ started[IntOf[msg[3]]] = "never"
    /\ testjobs[IntOf[msg[3]]].status = RUNNING

\* ------------------------------------------------------------------------ C5
\* C5: once a HELLO with the matching protocol version from w has been handled
\* (HELLO_OK sent), no pipeline job is RUNNING on a device of w: each one is
\* terminal or CANCELING.
C5_HelloCancelsRunning ==
    (Handled /\ MatchingVersion(msg) /\ msg[2] = "HELLO")
        => RunningOn(testjobs, msg[1]) = {}

C7_RejectedFrameNoEffect ==
    [][(Handles /\ RejectedMsg(msg'))
          => /\ sent' = <<>>
             /\ dispatchers' = dispatchers
             /\ testjobs' = testjobs]_vars

C7_Witness ==
    /\ Handled /\ msg[2] = "HELLO" /\ Len(msg) >= 3 /\ msg[3] = "2"
    /\ ret = "False"
    /\ sent = <<>>
    /\ msg[1] \notin DOMAIN dispatchers

\* ------------------------------------------------------------------------ C8
\* C8: once an accepted message from w has been handled to its end, w is in the
\* registry and online.
C8_AcceptedMessageOnline ==
    (Handled /\ AcceptedMsg(msg) /\ ret = "True")
        => /\ msg[1] \in DOMAIN dispatchers
           /\ dispatchers[msg[1]].online

\* ------------------------------------------------------------------------ C9
\* C9: last_msg of a worker of the registry is the receive time of the most
\* recent accepted message from it: handling an accepted message from w sets
\* last_msg of w to the time of that message, and nothing else changes it.
C9_LastMsgIsLastAccepted ==
    [][\A w \in DOMAIN dispatchers' :
          IF Handles /\ AcceptedMsg(msg') /\ msg'[1] = w
          THEN dispatchers'[w].last_msg = now'
          ELSE w \in DOMAIN dispatchers
               /\ dispatchers'[w].last_msg = dispatchers[w].last_msg]_vars

\* ----------------------------------------------------------------------- C10
\* the iteration body is over and the dispatcher check was part of it
SweptIteration == pc = "continue" /\ ret = "none"

\* C10 as claimed: a worker that was online and overdue when the loop woke up
\* is offline when the iteration ends, whatever frame the iteration handled.
C10_OverdueOfflineAtEnd ==
    pc = "continue" => \A w \in overdue : ~dispatchers[w].online

\* C10 as amended: when an iteration that reached the dispatcher check ends, a
\* worker that was online and overdue when the loop woke up is offline, unless
\* an accepted message from it was handled in that iteration (its last_msg is
\* then the time of the iteration); the check marks offline exactly the online
\* workers silent for more than DISPATCHER_TIMEOUT and changes nothing else.
\* An iteration whose frame is rejected, or whose handler raises a store
\* error, does not reach the check.
C10_CheckMarksOverdueOffline ==
    [][/\ SweptIteration
          => \A w \in overdue : ~dispatchers[w].online \/ dispatchers[w].last_msg = now
       /\ pc = "check"
          => /\ DOMAIN dispatchers' = DOMAIN dispatchers
             /\ testjobs' = testjobs
             /\ \A w \in DOMAIN dispatchers :
                   dispatchers'[w] =
                       [dispatchers[w] EXCEPT !.online =
                           @ /\ ~(now - dispatchers[w].last_msg > DISPATCHER_TIMEOUT)]]_vars

C10_Witness ==
    /\ SweptIteration
    /\ \E w \in overdue : ~dispatchers[w].online
    /\ \E w \in DOMAIN dispatchers : dispatchers[w].online /\ w \notin overdue

\* ----------------------------------------------------------------------- C11
\* C11: in the registry online implies last_msg > 0, and a hostname once in
\* the registry stays in it: no step removes a key.
C11_OnlineHasTimeKeysGrow ==
    [][/\ DOMAIN dispatchers \subseteq DOMAIN dispatchers'
       /\ \A w \in DOMAIN dispatchers' :
             dispatchers'[w].online => dispatchers'[w].last_msg > 0]_vars

C11_Witness ==
    /\ \E w \in DOMAIN dispatchers : ~dispatchers[w].online /\ dispatchers[w].last_msg > 0
    /\ \E w \in DOMAIN dispatchers : dispatchers[w].online
    /\ pc = "poll"

\* ----------------------------------------------------------------------- C12
StatusTo(out, hostname, ids) ==
    /\ \A j \in ids : Count(out, Out(hostname, "STATUS", j)) = 1
    /\ \A i \in 1..Len(out) :
          out[i].verb = "STATUS" => out[i].to = hostname /\ out[i].job_id \in ids

LiveInit ==
    /\ Init
    /\ DOMAIN testjobs = {1}
    /\ testjobs[1].status \in {RUNNING, CANCELING}
    /\ horizon = StartTime + TIMEOUT * MaxTicks

LiveSpec == LiveInit /\ [][Next]_vars /\ WF_vars(Next)

\* C13, for the case the claim names: when w1 has been marked offline by the
\* dispatcher check and its job is RUNNING or CANCELING, then - unless the main
\* loop is left or another control message arrives - the job eventually
\* reaches a terminal status.
C13_OfflineWorkerJobEnds ==
    (/\ "w1" \in DOMAIN dispatchers
     /\ ~dispatchers["w1"].online
     /\ testjobs[1].status \in {RUNNING, CANCELING})
        ~> (\/ testjobs[1].status \in Terminal
            \/ pc = "closed"
            \/ msg # NoMsg)

\* ----------------------------------------------------------------------- C14
\* C14: a log handle is closed and removed within one tick after it has been
\* unused for more than FD_TIMEOUT: no handle of the log context stays open
\* when its last frame is more than FD_TIMEOUT + TIMEOUT old.
C14_IdleHandleCollected ==
    \A j \in DOMAIN log_jobs : now - log_jobs[j].last_usage <= FD_TIMEOUT + TIMEOUT

\* ----------------------------------------------------------------------- C15
\* C15: every record written to a file {level}-{name}.yaml has that level (and
\* name): a frame of level L is never appended to the file of another level.
C15_RecordInItsOwnShard ==
    \A w \in sub_written :
        /\ w.file.level = w.record.level
        /\ w.file.name = w.record.name

\* ----------------------------------------------------------------------- C16
\* a frame of four parts whose level or name contains '/'
SlashFrame(f) == Len(f) = 4 /\ (f[2] = "1/1" \/ f[3] = "../n")
CleanPath(path) == path.level # "1/1" /\ path.major # "1/1" /\ path.name # "../n"

\* C16: a log frame whose level or name contains '/' is dropped before any
\* handle is created or rotated and before anything is written, and no path of
\* a handle or of a written file has a '/' from a level or a name.
C16_SlashFrameDropped ==
    [][/\ (log_thread = "running" /\ run_threads /\ SlashFrame(log_msg'))
          => UNCHANGED <<log_jobs, self_current_level, sub_written, output_written>>
       /\ \A j \in DOMAIN log_jobs' : CleanPath(log_jobs'[j].sub_log)
       /\ \A w \in sub_written' : CleanPath(w.file)]_vars

C16_Witness ==
    /\ log_msg = <<"1", "1/1", "n", "debug">>
    /\ log_ret = "dropped"
    /\ "1" \in DOMAIN log_jobs
    /\ sub_written # {}

\* ----------------------------------------------------------------------- C17
\* C17: a sweep starts only at the DB_LIMIT gate, more than DB_LIMIT seconds
\* after the start of the sweep before it (last_db_access is the start time of
\* the last sweep and changes at no other step); and within a sweep
\* handle_canceling begins only when process_jobs has returned.
C17_SweepAtMostOncePerDbLimit ==
    [][/\ pc' = "process_jobs"
          => /\ pc = "db_limit"
             /\ now - last_db_access > DB_LIMIT
             /\ last_db_access' = now
             /\ now' = now
       /\ pc' # "process_jobs" => last_db_access' = last_db_access
       /\ pc' = "handle_canceling" => pc = "process_jobs"]_vars

C17_Witness ==
    /\ pc = "handle_canceling"
    /\ last_db_access = now
    /\ now >= StartTime + 2 * TIMEOUT
    /\ \E i \in 1..Len(sent) : sent[i].verb = "START"

\* ----------------------------------------------------------------------- C18
\* the main loop has been left
Stopped == pc \in {"closed", "join", "done"}

\* C18: once SIGINT, SIGTERM or SIGQUIT has ended the main loop no control
\* message is handled and no sweep is run any more; when the shutdown sequence
\* is over the log context has left its loop and both sockets are closed; a
\* wake-up without a control message that goes on with the iteration (SIGHUP,
\* or a timeout) changes neither the registry nor any job.
C18_SignalsStopOrContinue ==
    [][/\ Stopped
          => /\ pc' \in {"closed", "join", "done"}
             /\ UNCHANGED <<msg, ret, sent, txn, dispatchers, testjobs, last_db_access>>
       /\ pc' = "done"
          => /\ controler' = "closed"
             /\ pull_socket' = "closed"
             /\ log_thread' = "terminated"
       /\ (pc = "poll" /\ pc' = "check" /\ msg' = NoMsg)
          => UNCHANGED <<dispatchers, testjobs>>]_vars

\* ----------------------------------------------------------------------- C19
\* C19: when an END for a known job is handled and its transaction commits,
\* the job alone is changed and is left terminal; the status given to fail_job
\* is COMPLETE exactly when the exit code is 0 and INCOMPLETE otherwise, so a
\* job that was neither CANCELING nor terminal ends with exactly that status;
\* cancel_job comes first only for a job found CANCELING, which may then end as
\* cancel_job left it; when the transaction fails no job is changed.
C19_EndFinalisesJob ==
    [][(Handles /\ WellFormedEnd(msg') /\ IntOf[msg'[3]] \in JobIds /\ txn' # txn)
          => LET j == IntOf[msg'[3]]
                 before == testjobs[j].status
                 after == testjobs'[j].status
                 expected == IF IntOf[msg'[4]] = 0 THEN COMPLETE ELSE INCOMPLETE
             IN /\ \A k \in JobIds \ {j} : testjobs'[k] = testjobs[k]
                /\ txn' = "rollback" => testjobs' = testjobs
                /\ txn' = "commit"
                      => /\ after \in Terminal
                         /\ before \notin Terminal \cup {CANCELING} => after = expected
                         /\ before = CANCELING => after \in {expected, CANCELED, INCOMPLETE}
                         /\ before \in Terminal => after \in {before, expected}]_vars

C19_Witness ==
    /\ Handled /\ WellFormedEnd(msg)
    /\ IntOf[msg[3]] \in JobIds
    /\ IntOf[msg[4]] = 0
    /\ txn = "commit"
    /\ testjobs[IntOf[msg[3]]].status = COMPLETE

\* ----------------------------------------------------------------------- C20
\* the frames the step has added to what was sent
NewlySent == SubSeq(sent', Len(sent) + 1, Len(sent'))
CancelsOf(out, j) ==
    Cardinality({i \in 1..Len(out) : out[i].verb = "CANCEL" /\ out[i].job_id = j})
\* the responsible worker of a job, as the claim defines it
Responsible(j) ==
    IF testjobs[j].dynamic_connection THEN testjobs[j].lookup_worker
    ELSE IF testjobs[j].actual_device = None THEN None
    ELSE DeviceWorker[testjobs[j].actual_device]
CancelingPipeline(j) == testjobs[j].status = CANCELING /\ testjobs[j].is_pipeline
\* the phase has dealt with job j as the claim says
CancelPropagated(j) ==
    IF Responsible(j) # None
    THEN /\ Count(NewlySent, Out(Responsible(j), "CANCEL", j)) = 1
         /\ CancelsOf(NewlySent, j) = 1
         /\ testjobs'[j] = testjobs[j]
    ELSE /\ CancelsOf(NewlySent, j) = 0
         /\ testjobs'[j] = [testjobs[j] EXCEPT !.status = CANCELED]
CancelUntouched(j) == CancelsOf(NewlySent, j) = 0 /\ testjobs'[j] = testjobs[j]

\* C20 as claimed: the cancellation phase deals with every CANCELING pipeline
\* job (one CANCEL to its responsible worker and the status kept, or CANCELED
\* and no CANCEL when it has none), and a job with a responsible worker leaves
\* CANCELING only in a step that handles an END for it.
C20_CancelSentLeavesOnEnd ==
    [][/\ pc = "handle_canceling"
          => \A j \in JobIds : CancelingPipeline(j) => CancelPropagated(j)
       /\ \A j \in JobIds :
             (CancelingPipeline(j) /\ Responsible(j) # None
                 /\ testjobs'[j].status # CANCELING)
                => Handles /\ WellFormedEnd(msg') /\ IntOf[msg'[3]] = j]_vars

\* C20, amended: the phase deals in that way with the CANCELING pipeline jobs
\* it reaches before a store error ends it and leaves the others as they
\* were, it sends nothing else and changes no other job; a job with a
\* responsible worker leaves CANCELING only in a step that handles an END or
\* a START_OK for it, and START_OK makes it RUNNING.
C20_CancelSentLeavesOnEndOrStartOk ==
    [][/\ pc = "handle_canceling"
          => /\ \A j \in JobIds :
                   IF CancelingPipeline(j)
                   THEN CancelPropagated(j) \/ CancelUntouched(j)
                   ELSE CancelUntouched(j)
             /\ \A i \in 1..Len(NewlySent) : NewlySent[i].verb = "CANCEL"
       /\ \A j \in JobIds :
             (CancelingPipeline(j) /\ Responsible(j) # None
                 /\ testjobs'[j].status # CANCELING)
                => /\ Handles
                   /\ \/ WellFormedEnd(msg') /\ IntOf[msg'[3]] = j
                      \/ /\ WellFormedStartOk(msg') /\ IntOf[msg'[3]] = j
                         /\ testjobs'[j].status = RUNNING]_vars

\* the phase has just sent CANCEL for a dynamic connection to its
\* lookup_worker and left it CANCELING, and has finalised no job
C20_Witness ==
    /\ pc = "continue"
    /\ \E i \in 1..Len(sent) :
          /\ sent[i].verb = "CANCEL"
          /\ testjobs[sent[i].job_id].dynamic_connection
          /\ sent[i].to = testjobs[sent[i].job_id].lookup_worker
          /\ testjobs[sent[i].job_id].status = CANCELING

\* ----------------------------------------------------------------------- C21
StartsOf(out, j) ==
    Cardinality({i \in 1..Len(out) : out[i].verb = "START" /\ out[i].job_id = j})
\* a candidate of the assignment phase, as the claim defines it
Candidate(j) ==
    /\ testjobs[j].status = SUBMITTED
    /\ testjobs[j].is_pipeline
    /\ testjobs[j].actual_device # None
\* the candidate ended this sweep in an infrastructure error
InfrastructureError(j) == Candidate(j) /\ testjobs'[j].status = INCOMPLETE

\* C21: in the assignment phase a candidate either ends in an infrastructure
\* error (INCOMPLETE, and no START(job_id) for it in this sweep) or is left
\* SUBMITTED and unchanged with at most one START(job_id); a candidate whose
\* device has no worker host never gets a START; the failure of one candidate
\* touches no other job, and the phase changes no job that is no candidate.
C21_InfrastructureErrorPerJob ==
    [][pc = "process_jobs"
          => \A j \in JobIds :
                IF Candidate(j)
                THEN /\ \/ InfrastructureError(j) /\ StartsOf(NewlySent, j) = 0
                        \/ testjobs'[j] = testjobs[j] /\ StartsOf(NewlySent, j) <= 1
                     /\ DeviceWorker[testjobs[j].actual_device] = None
                           => StartsOf(NewlySent, j) = 0
                ELSE testjobs'[j] = testjobs[j]]_vars

\* a sweep has run to its end in which one candidate was marked INCOMPLETE
\* without a START and a candidate after it was sent its START
C21_Witness ==
    /\ pc = "handle_canceling"
    /\ \E j, k \in JobIds :
          /\ j < k
          /\ testjobs[j].status = INCOMPLETE /\ testjobs[j].actual_device # None
          /\ StartsOf(sent, j) = 0
          /\ testjobs[k].status = SUBMITTED
          /\ StartsOf(sent, k) = 1

\* ----------------------------------------------------------------------- C22
\* the last frame was a "results" record of a job of the store, it was not
\* dropped and the store raised nothing while it was handled
ResultsFrameHandled ==
    /\ log_msg # NoMsg /\ Len(log_msg) = 4
    /\ MessageLvl(log_msg[4]) = "results"
    /\ IntOf[log_msg[1]] \in JobIds
    /\ log_ret \notin {"none", "dropped", "raised", "type_error"}

\* C22: whatever the results extractor does with a "results" record (a false
\* result or an error), the record is in both sinks of its job afterwards and
\* the log context goes on.
C22_ExtractorFailureTolerated ==
    ResultsFrameHandled
       => /\ \E w \in output_written :
                w.output_dir = log_msg[1] /\ w.record = LogRecord(log_msg)
          /\ \E w \in sub_written :
                w.file.output_dir = log_msg[1] /\ w.record = LogRecord(log_msg)
          /\ log_thread # "dead"

\* ----------------------------------------------------------------------- C23
\* a frame the claim calls dropped: wrong number of parts, a message that is
\* not decodable or has no lvl or msg, '/' in level or name, or a job_id that
\* is not in the store
DroppedFrame(f) ==
    /\ f # NoMsg
    /\ \/ Len(f) # 4
       \/ f[4] \in {"notyaml", "nokeys", "scalar"}
       \/ f[2] = "1/1" \/ f[3] = "../n"
       \/ IntOf[f[1]] \notin JobIds

\* C23: while the log context runs, a dropped frame, the store raising
\* nothing, leaves the handle table, the handles and all files as they
\* were, creates no handle for an unknown job, and leaves the log context
\* running for the next frame.
C23_DroppedFrameNoEffect ==
    [][(log_thread = "running" /\ run_threads /\ DroppedFrame(log_msg')
           /\ log_ret' # "raised")
          => /\ UNCHANGED <<log_jobs, sub_written, output_written>>
             /\ \A j \in DOMAIN log_jobs' : IntOf[j] \in JobIds
             /\ log_thread' = "running"]_vars

\* ----------------------------------------------------------------------- C24
\* C24: when the shutdown sequence is over, the log context having left its
\* loop in the regular way, no handle of the log context is left (each was
\* closed and removed), and at any time there is at most one handle for a job
\* of the store.
C24_HandlesClosedAtShutdown ==
    /\ (pc = "done" /\ log_thread = "terminated") => DOMAIN log_jobs = {}
    /\ \A j, k \in DOMAIN log_jobs : IntOf[j] = IntOf[k] => j = k

\* ----------------------------------------------------------------------- C25
\* C25: no step removes a registry entry; a control message whose handling
\* raised a store error, a sweep that did not get to its cancellation phase
\* and the cancellation phase itself all lead to the bottom of the loop, from
\* where the loop goes back to polling with the registry and the jobs as they
\* are; and the main loop is left only from the poll, without a message.
C25_StoreErrorLoopGoesOn ==
    [][/\ DOMAIN dispatchers \subseteq DOMAIN dispatchers'
       /\ (Handles /\ ret' = "raised") => pc' = "continue"
       /\ (pc = "process_jobs" /\ pc' # "handle_canceling") => pc' = "continue"
       /\ pc = "handle_canceling" => pc' = "continue"
       /\ pc = "continue" => pc' = "poll" /\ UNCHANGED <<dispatchers, testjobs>>
       /\ (pc # "closed" /\ pc' = "closed") => pc = "poll" /\ msg' = NoMsg]_vars

\* a message of w2 has raised a store error while w1 was registered in an
\* earlier iteration: the loop is at its bottom, w1 is still registered and a
\* job is still waiting for a sweep
C25_Witness ==
    /\ pc = "continue"
    /\ msg # NoMsg /\ msg[1] = "w2"
    /\ ret = "raised"
    /\ "w1" \in DOMAIN dispatchers
    /\ \E j \in JobIds : testjobs[j].status \in {SUBMITTED, CANCELING}

\* ----------------------------------------------------------------------- C26
\* C26: there is no state in which a HELLO with the matching version has been
\* answered by HELLO_OK, its cancelling transaction was rolled back by a store
\* error, and a pipeline job is still RUNNING on a device of the sender (the
\* master keeps no record from which it would try the cancellation again).
C26_HelloOkOnlyWithCancellation ==
    ~ /\ Handled /\ MatchingVersion(msg) /\ msg[2] = "HELLO"
      /\ \E i \in 1..Len(sent) : sent[i] = Out(msg[1], "HELLO_OK", NoId)
      /\ txn = "rollback"
      /\ RunningOn(testjobs, msg[1]) # {}

\* ----------------------------------------------------------------------- C27
\* the multinode candidates of the group of k that were sent their own START
\* in this step
StartedInGroup(k) ==
    {j \in JobIds : /\ Candidate(j) /\ testjobs[j].is_multinode
                    /\ testjobs[j].target_group = testjobs[k].target_group
                    /\ StartsOf(NewlySent, j) = 1}

\* C27: in a sweep a dynamic connection gets a START only on behalf of a job
\* of its group whose own START is sent: it has no more STARTs than the group
\* has jobs started in this sweep, so a job that ends in an infrastructure
\* error has caused none.
C27_MultinodeAllOrNothing ==
    [][pc = "process_jobs"
          => \A k \in JobIds :
                (testjobs[k].is_multinode /\ testjobs[k].dynamic_connection)
                   => StartsOf(NewlySent, k) <= Cardinality(StartedInGroup(k))]_vars

====
